---- MODULE Spec2Model ----
(***************************************************************************)
(* Account-balance reconciliation of the finance tracker: the request      *)
(* handlers of server/routes.ts over the two storage back ends of          *)
(* server/storage.ts (DatabaseStorage and MemStorage).                     *)
(*                                                                         *)
(* Money is a JavaScript number / PostgreSQL double precision: a binary    *)
(* floating-point value.  It is modelled as an integer that is rounded to  *)
(* Precision significant bits (round to nearest, ties to even) after every *)
(* addition and subtraction, which is IEEE-754 arithmetic at a reduced     *)
(* precision.                                                              *)
(***************************************************************************)
EXTENDS Integers, Sequences, FiniteSets, TLC

\* ------------------------------------------------------------------ bounds
Precision == 11
MaxAccounts == 2
MaxTransactions == 2
MaxUpdates == 1
MaxProcs == 2
MaxCategories == 3

\* ------------------------------------------------------------------ inputs
Users == {1}
Backends == {"db", "mem"}
\* A null category_id.  Null is falsy, as in `categoryId ? ... : undefined`.
Null == 0
\* The value undefined of a field of an update.
Undefined == 0 - 1

RECURSIVE Pow2(_)
Pow2(n) == IF n = 0 THEN 1 ELSE 2 * Pow2(n - 1)

\* Every integer below MantissaLimit is held exactly; MaxExact is the largest
\* odd one.
MantissaLimit == Pow2(Precision)
MaxExact == MantissaLimit - 1

OpeningBalances == {1000, MaxExact}
Amounts == {50, 300}
AccountIds == 1 .. MaxAccounts
TransactionIds == 1 .. MaxTransactions
Procs == 1 .. MaxProcs

\* The rows of the categories table, id -> type: an expense row and an
\* income row of the default categories.
defaultCategories == (1 :> "expense") @@ (2 :> "income")
\* A category id that is in no row.
UnknownCategory == Cardinality(DOMAIN defaultCategories) + 1
CategoryInputs == {Null, 1, 2, UnknownCategory}

VARIABLES
  backend,              \* which IStorage implementation `storage` is
  accounts,             \* accounts table / MemStorage.accounts: id -> row
  transactions,         \* transactions table / MemStorage.transactions
  categories,           \* categories table / MemStorage.categories: id -> type
  accountCurrentId,     \* next account id (serial)
  transactionCurrentId, \* next transaction id (serial)
  response,             \* the last request handled and its HTTP status
  openingBalance,       \* history: the balance each account was created with
  createdAs,            \* history: each stored transaction as it was inserted
  updates,              \* history: the number of update requests handled
  calls,                \* the requests in flight: per process, the handler's
                        \* position and its local variables
  mirror,               \* the tables of a MemStorage that is given the same
                        \* calls as a DatabaseStorage (SpecPair)
  userAchievements      \* user_achievements table: id -> row

\* The tables that the requests on accounts and transactions do not touch.
otherTables == <<mirror, userAchievements>>

vars == <<backend, otherTables, accounts, transactions, categories, accountCurrentId,
          transactionCurrentId, response, openingBalance, createdAs, updates,
          calls>>

\* ------------------------------------------------------- number arithmetic
Abs(x) == IF x < 0 THEN -x ELSE x

\* The spacing of representable values around a magnitude a >= 2^Precision.
RECURSIVE Quantum(_, _)
Quantum(a, q) == IF a \div q < MantissaLimit THEN q ELSE Quantum(a, 2 * q)

\* Round an exact result to the nearest representable value, ties to even.
RoundHalfEven(x) ==
  LET a == Abs(x)
      q == Quantum(a, 1)
      m == a \div q
      r == a - m * q
      up == (2 * r > q) \/ (2 * r = q /\ m % 2 = 1)
      v == IF up THEN (m + 1) * q ELSE m * q
  IN  IF x < 0 THEN -v ELSE v

FAdd(a, b) == RoundHalfEven(a + b)
FSub(a, b) == RoundHalfEven(a - b)

\* ------------------------------------------------------ storage operations
\* A storage call's outcome: the tables after it and whether it threw.
Outcome(accts, txs, threw) ==
  [accounts |-> accts, transactions |-> txs, threw |-> threw]

Without(f, k) == [x \in DOMAIN f \ {k} |-> f[x]]

\* Mutant of IsIncome: everything that is not an expense category counts as
\* income (category?.type !== 'expense').
IsIncomeUnlessExpense(cats, categoryId) ==
  ~( /\ categoryId # Null
     /\ categoryId \in DOMAIN cats
     /\ cats[categoryId] = "expense" )

\* getCategory(categoryId)?.type === 'income', the category being looked up
\* only when categoryId is truthy.
IsIncome(cats, categoryId) ==
  /\ categoryId # Null
  /\ categoryId \in DOMAIN cats
  /\ cats[categoryId] = "income"

\* (isIncome ? amount : -amount)
SignedAmount(isIncome, amount) == IF isIncome THEN amount ELSE -amount

\* The foreign keys of the transactions table: account_id references
\* accounts.id, category_id (nullable) references categories.id.
ForeignKeysHold(accts, cats, accountId, categoryId) ==
  /\ accountId \in DOMAIN accts
  /\ categoryId = Null \/ categoryId \in DOMAIN cats

\* updateAccount(id, { currentBalance })
updateAccount(accts, id, balance) ==
  IF id \in DOMAIN accts
    THEN [accts EXCEPT ![id].currentBalance = balance]
    ELSE accts

\* account.currentBalance + (isIncome ? amount : -amount)
BalanceAfterCreate(balance, isIncome, amount) ==
  FAdd(balance, SignedAmount(isIncome, amount))

\* account.currentBalance - (isIncome ? amount : -amount)
BalanceAfterDelete(balance, isIncome, amount) ==
  FSub(balance, SignedAmount(isIncome, amount))

\* Mutant of BalanceAfterUpdate: the new effect applied without the old one
\* reverted.
BalanceAfterUpdateNoRevert(balance, wasIncome, oldAmount, isIncome, amount) ==
  FAdd(balance, SignedAmount(isIncome, amount))

\* The two steps of updateTransaction on a balance: revert the old effect,
\* then apply the new one.
BalanceAfterUpdate(balance, wasIncome, oldAmount, isIncome, amount) ==
  FAdd(FSub(balance, SignedAmount(wasIncome, oldAmount)),
       SignedAmount(isIncome, amount))

\* The balance write of createTransaction, on the account as it is read
\* after the insert.
CreditNewTransaction(accts, cats, tx) ==
  IF tx.accountId \in DOMAIN accts
    THEN updateAccount(accts, tx.accountId,
           BalanceAfterCreate(accts[tx.accountId].currentBalance,
                              IsIncome(cats, tx.categoryId), tx.amount))
    ELSE accts

DbCreateTransaction(accts, txs, cats, id, tx) ==
  IF ~ForeignKeysHold(accts, cats, tx.accountId, tx.categoryId)
    THEN Outcome(accts, txs, TRUE)
    ELSE Outcome(CreditNewTransaction(accts, cats, tx), txs @@ (id :> tx), FALSE)

MemCreateTransaction(accts, txs, cats, id, tx) ==
  Outcome(CreditNewTransaction(accts, cats, tx), txs @@ (id :> tx), FALSE)

\* The condition under which updateTransaction adjusts the balance.
\* Mutant of AmountOrCategoryChanged: a field the patch names counts as
\* changed without being compared with the stored value.
AmountOrCategoryNamed(cur, patch) ==
  "amount" \in DOMAIN patch \/ "categoryId" \in DOMAIN patch

\* A Partial<Transaction> is a record of the fields the request names; a
\* field it does not name is undefined.
AmountOrCategoryChanged(cur, patch) ==
  \/ "amount" \in DOMAIN patch /\ patch.amount # cur.amount
  \/ "categoryId" \in DOMAIN patch /\ patch.categoryId # cur.categoryId

\* { ...transaction, ...transactionUpdate }: every field of the update
\* replaces the stored one, a field that is undefined included.
ApplyPatch(cur, patch) ==
  [k \in DOMAIN cur |-> IF k \in DOMAIN patch THEN patch[k] ELSE cur[k]]

\* db.update(transactions).set(transactionUpdate): the columns whose value in
\* the update is undefined are left out of the statement.
SetColumns(cur, patch) ==
  [k \in DOMAIN cur |->
     IF k \in DOMAIN patch /\ patch[k] # Undefined THEN patch[k] ELSE cur[k]]

\* The balance write of updateTransaction, on the account of the
\* transaction as it was read.
ReconcileUpdate(accts, cats, cur, patch) ==
  IF AmountOrCategoryChanged(cur, patch) /\ cur.accountId \in DOMAIN accts
    THEN updateAccount(accts, cur.accountId,
           BalanceAfterUpdate(
             accts[cur.accountId].currentBalance,
             IsIncome(cats, cur.categoryId), cur.amount,
             IsIncome(cats, ApplyPatch(cur, patch).categoryId),
             ApplyPatch(cur, patch).amount))
    ELSE accts

DbUpdateTransaction(accts, txs, cats, id, patch) ==
  IF id \notin DOMAIN txs
    THEN Outcome(accts, txs, FALSE)
    ELSE LET cur == txs[id]
             new == SetColumns(cur, patch)
             adjusted == ReconcileUpdate(accts, cats, cur, patch)
         IN  IF ForeignKeysHold(accts, cats, new.accountId, new.categoryId)
               THEN Outcome(adjusted, [txs EXCEPT ![id] = new], FALSE)
               ELSE Outcome(adjusted, txs, TRUE)

MemUpdateTransaction(accts, txs, cats, id, patch) ==
  IF id \notin DOMAIN txs
    THEN Outcome(accts, txs, FALSE)
    ELSE Outcome(ReconcileUpdate(accts, cats, txs[id], patch),
                 [txs EXCEPT ![id] = ApplyPatch(txs[id], patch)], FALSE)

\* The balance write of deleteTransaction.
DebitDeletedTransaction(accts, cats, tx) ==
  IF tx.accountId \in DOMAIN accts
    THEN updateAccount(accts, tx.accountId,
           BalanceAfterDelete(accts[tx.accountId].currentBalance,
                              IsIncome(cats, tx.categoryId), tx.amount))
    ELSE accts

\* deleteTransaction is the same code in both back ends.
deleteTransaction(accts, txs, cats, id) ==
  IF id \notin DOMAIN txs
    THEN Outcome(accts, txs, FALSE)
    ELSE Outcome(DebitDeletedTransaction(accts, cats, txs[id]),
                 Without(txs, id), FALSE)

\* DatabaseStorage.deleteAccount: the transactions of the account are deleted,
\* then the account.
DbDeleteAccount(accts, txs, id) ==
  Outcome(Without(accts, id),
          [t \in {x \in DOMAIN txs : txs[x].accountId # id} |-> txs[t]],
          FALSE)

\* MemStorage.deleteAccount: this.accounts.delete(id)
MemDeleteAccount(accts, txs, id) == Outcome(Without(accts, id), txs, FALSE)

deleteAccount(b, accts, txs, id) ==
  IF b = "db" THEN DbDeleteAccount(accts, txs, id)
              ELSE MemDeleteAccount(accts, txs, id)

createTransaction(b, accts, txs, cats, id, tx) ==
  IF b = "db" THEN DbCreateTransaction(accts, txs, cats, id, tx)
              ELSE MemCreateTransaction(accts, txs, cats, id, tx)

updateTransaction(b, accts, txs, cats, id, patch) ==
  IF b = "db" THEN DbUpdateTransaction(accts, txs, cats, id, patch)
              ELSE MemUpdateTransaction(accts, txs, cats, id, patch)

\* --------------------------------------------------------------- requests
EmptyRecord == [k \in {} |-> 0]

\* The bodies of POST /api/transactions that pass insertTransactionSchema.
TransactionBodies(accountIds, categoryIds, amounts) ==
  [accountId : accountIds, categoryId : categoryIds, amount : amounts]

\* The bodies of PUT /api/transactions/:id: any subset of the fields.
Patches(accountIds, categoryIds, amounts) ==
  { a @@ c @@ t :
      a \in {EmptyRecord} \cup {[amount |-> x] : x \in amounts},
      c \in {EmptyRecord} \cup {[categoryId |-> x] : x \in categoryIds},
      t \in {EmptyRecord} \cup {[accountId |-> x] : x \in accountIds} }

AllBodies == TransactionBodies(AccountIds, CategoryInputs, Amounts)
AllPatches == Patches(AccountIds, CategoryInputs, Amounts)

\* What the handler answered: the route, the id it acted on, the status.
Response(op, id, status) == [op |-> op, id |-> id, status |-> status]

IdleCall == [pc |-> "idle"]

\* insertTransactionSchema.parse: the columns that are notNull and have no
\* default are required; category_id is optional; no column has a check on
\* its value.
insertTransactionSchema(body) ==
  /\ "accountId" \in DOMAIN body
  /\ "amount" \in DOMAIN body

\* const updateData = { ...req.body,
\*   date: req.body.date ? new Date(req.body.date) : undefined }
updateData(body) ==
  [k \in DOMAIN body \cup {"date"} |->
     IF k # "date" THEN body[k]
     ELSE IF "date" \in DOMAIN body /\ body.date # Null THEN body.date
     ELSE Undefined]

\* Mutant of CannotPostTo: the account is looked up, its owner is not
\* compared with the requester.
AccountMissing(accts, accountId, user) == accountId \notin DOMAIN accts

\* !account || account.userId !== req.user!.id
CannotPostTo(accts, accountId, user) ==
  \/ accountId \notin DOMAIN accts
  \/ accts[accountId].userId # user

\* Mutant of TransactionAccess: the owner is not compared with the requester.
TransactionAccessAnyUser(txs, id, user) ==
  IF id \notin DOMAIN txs THEN 404 ELSE 200

\* Mutant of TransactionAccess: a missing transaction is answered as one of
\* another user.
TransactionAccessForbidsMissing(txs, id, user) ==
  IF id \notin DOMAIN txs \/ txs[id].userId # user THEN 403 ELSE 200

\* The checks of PUT and DELETE /api/transactions/:id before the storage
\* call: 404 when getTransaction finds nothing, 403 when the transaction is
\* another user's, otherwise the handler goes on (200).
TransactionAccess(txs, id, user) ==
  IF id \notin DOMAIN txs THEN 404
  ELSE IF txs[id].userId # user THEN 403
  ELSE 200

\* The same checks of DELETE /api/accounts/:id.
AccountAccess(accts, id, user) ==
  IF id \notin DOMAIN accts THEN 404
  ELSE IF accts[id].userId # user THEN 403
  ELSE 200

Init ==
  /\ backend \in Backends
  /\ accounts = EmptyRecord
  /\ transactions = EmptyRecord
  /\ categories = defaultCategories
  /\ accountCurrentId = 1
  /\ transactionCurrentId = 1
  /\ response = Response("none", 0, 0)
  /\ openingBalance = EmptyRecord
  /\ createdAs = EmptyRecord
  /\ updates = 0
  /\ calls = [p \in Procs |-> IdleCall]
  /\ mirror = [accounts |-> EmptyRecord, transactions |-> EmptyRecord,
               transactionCurrentId |-> 1]
  /\ userAchievements = EmptyRecord

\* POST /api/accounts
PostAccount(user, balance) ==
  /\ accountCurrentId <= MaxAccounts
  /\ accounts' = accounts @@
       (accountCurrentId :> [userId |-> user, currentBalance |-> balance])
  /\ openingBalance' = openingBalance @@ (accountCurrentId :> balance)
  /\ accountCurrentId' = accountCurrentId + 1
  /\ response' = Response("postAccount", accountCurrentId, 201)
  /\ UNCHANGED <<backend, otherTables, transactions, categories, transactionCurrentId,
                 createdAs, updates, calls>>

\* POST /api/transactions
PostTransaction(user, body) ==
  /\ transactionCurrentId <= MaxTransactions
  /\ IF ~insertTransactionSchema(body)
       THEN /\ response' = Response("postTransaction", 0, 400)
            /\ UNCHANGED <<accounts, transactions, transactionCurrentId,
                           createdAs>>
       ELSE IF CannotPostTo(accounts, body.accountId, user)
       THEN /\ response' = Response("postTransaction", 0, 403)
            /\ UNCHANGED <<accounts, transactions, transactionCurrentId,
                           createdAs>>
       ELSE LET id == transactionCurrentId
                tx == body @@ [userId |-> user]
                out == createTransaction(backend, accounts, transactions,
                                         categories, id, tx)
            IN  /\ accounts' = out.accounts
                /\ transactions' = out.transactions
                /\ IF out.threw
                     THEN /\ response' = Response("postTransaction", 0, 500)
                          /\ UNCHANGED <<transactionCurrentId, createdAs>>
                     ELSE /\ response' = Response("postTransaction", id, 201)
                          /\ transactionCurrentId' = id + 1
                          /\ createdAs' = createdAs @@ (id :> tx)
  /\ UNCHANGED <<backend, otherTables, categories, accountCurrentId, openingBalance,
                 updates, calls>>

\* PUT /api/transactions/:id
PutTransaction(user, id, patch) ==
  /\ updates < MaxUpdates
  /\ updates' = updates + 1
  /\ IF TransactionAccess(transactions, id, user) # 200
       THEN /\ response' = Response("putTransaction", id,
                                    TransactionAccess(transactions, id, user))
            /\ UNCHANGED <<accounts, transactions>>
       ELSE LET out == updateTransaction(backend, accounts, transactions,
                                         categories, id, updateData(patch))
            IN  /\ accounts' = out.accounts
                /\ transactions' = out.transactions
                /\ response' = Response("putTransaction", id,
                                        IF out.threw THEN 500 ELSE 200)
  /\ UNCHANGED <<backend, otherTables, categories, accountCurrentId, transactionCurrentId,
                 openingBalance, createdAs, calls>>

\* DELETE /api/transactions/:id
DeleteTransaction(user, id) ==
  /\ IF TransactionAccess(transactions, id, user) # 200
       THEN /\ response' = Response("deleteTransaction", id,
                                    TransactionAccess(transactions, id, user))
            /\ UNCHANGED <<accounts, transactions, createdAs>>
       ELSE LET out == deleteTransaction(accounts, transactions, categories, id)
            IN  /\ accounts' = out.accounts
                /\ transactions' = out.transactions
                /\ createdAs' = Without(createdAs, id)
                /\ response' = Response("deleteTransaction", id, 204)
  /\ UNCHANGED <<backend, otherTables, categories, accountCurrentId, transactionCurrentId,
                 openingBalance, updates, calls>>

\* DELETE /api/accounts/:id
DeleteAccount(user, id) ==
  /\ IF AccountAccess(accounts, id, user) # 200
       THEN /\ response' = Response("deleteAccount", id,
                                    AccountAccess(accounts, id, user))
            /\ UNCHANGED <<accounts, transactions, createdAs>>
       ELSE LET out == deleteAccount(backend, accounts, transactions, id)
            IN  /\ accounts' = out.accounts
                /\ transactions' = out.transactions
                /\ createdAs' = [t \in DOMAIN out.transactions |-> createdAs[t]]
                /\ response' = Response("deleteAccount", id, 204)
  /\ UNCHANGED <<backend, otherTables, categories, accountCurrentId, transactionCurrentId,
                 openingBalance, updates, calls>>

\* Requests handled one at a time, each to completion.
Next ==
  \/ \E u \in Users, b \in OpeningBalances : PostAccount(u, b)
  \/ \E u \in Users, body \in AllBodies : PostTransaction(u, body)
  \/ \E u \in Users, id \in TransactionIds, patch \in AllPatches :
       PutTransaction(u, id, patch)
  \/ \E u \in Users, id \in TransactionIds : DeleteTransaction(u, id)

Spec == Init /\ [][Next]_vars

\* ----------------------------------------- the specification's example run
ExampleOpenings == {1000}
ExampleAmounts == {200, 300, 500}

\* The requests of the example scenario of the specification: one opening
\* balance, its amounts, an expense and an income category, updates of the
\* amount alone.
NextExample ==
  \/ \E u \in Users, b \in ExampleOpenings : PostAccount(u, b)
  \/ \E u \in Users,
        body \in TransactionBodies(AccountIds, DOMAIN defaultCategories,
                                   ExampleAmounts) :
       PostTransaction(u, body)
  \/ \E u \in Users, id \in TransactionIds,
        patch \in Patches({}, {}, ExampleAmounts) :
       PutTransaction(u, id, patch)
  \/ \E u \in Users, id \in TransactionIds : DeleteTransaction(u, id)

SpecExample == Init /\ [][NextExample]_vars

\* ------------------------------------- several users, accounts deleted
\* Two users, every route of accounts and transactions, and request bodies
\* that include amounts that are not positive and bodies without an amount.
Owners == {1, 2}
OwnerOpenings == {1000}
OwnerAmounts == {-50, 0, 50}
OwnerBodies ==
  TransactionBodies(AccountIds, {Null, UnknownCategory}, OwnerAmounts)
    \cup {[accountId |-> a, categoryId |-> Null] : a \in AccountIds}
OwnerPatches == Patches({}, {}, {300})

NextOwners ==
  \/ \E u \in Owners, b \in OwnerOpenings : PostAccount(u, b)
  \/ \E u \in Owners, body \in OwnerBodies : PostTransaction(u, body)
  \/ \E u \in Owners, id \in TransactionIds, patch \in OwnerPatches :
       PutTransaction(u, id, patch)
  \/ \E u \in Owners, id \in TransactionIds : DeleteTransaction(u, id)
  \/ \E u \in Owners, id \in AccountIds : DeleteAccount(u, id)

SpecOwners == Init /\ [][NextOwners]_vars

\* ------------------------------------------------- requests in flight
\* POST /api/transactions as the steps between its awaits.  Each statement
\* sent to the database is one step; a MemStorage method has no await inside
\* and runs as one step.
ConcOpenings == {100}
ConcAmounts == {10}
ConcBodies == TransactionBodies(AccountIds, {Null, 1, 2}, ConcAmounts)

Call(pc, user, body, id, balance, isIncome, status) ==
  [pc |-> pc, user |-> user, body |-> body, id |-> id, balance |-> balance,
   isIncome |-> isIncome, status |-> status]

Goto(p, pc) == calls' = [calls EXCEPT ![p].pc = pc]
Finish(p, status) ==
  calls' = [calls EXCEPT ![p].pc = "done", ![p].status = status]

seqVars == <<backend, otherTables, categories, accountCurrentId, response, openingBalance,
             updates>>

\* The request arrives and its body passes insertTransactionSchema.
StartPostTransaction(p, user, body) ==
  /\ calls[p].pc = "idle"
  /\ calls' = [calls EXCEPT
                 ![p] = Call("routeGetAccount", user, body, 0, 0, FALSE, 0)]
  /\ UNCHANGED <<accounts, transactions, transactionCurrentId, createdAs>>
  /\ UNCHANGED seqVars

\* const account = await storage.getAccount(transactionData.accountId)
RouteGetAccount(p) ==
  /\ calls[p].pc = "routeGetAccount"
  /\ IF \/ calls[p].body.accountId \notin DOMAIN accounts
        \/ accounts[calls[p].body.accountId].userId # calls[p].user
       THEN Finish(p, 403)
       ELSE Goto(p, "insert")
  /\ UNCHANGED <<accounts, transactions, transactionCurrentId, createdAs>>
  /\ UNCHANGED seqVars

\* storage.createTransaction: db.insert(transactions) in DatabaseStorage, the
\* whole method in MemStorage.
InsertTransaction(p) ==
  /\ calls[p].pc = "insert"
  /\ transactionCurrentId <= MaxTransactions
  /\ LET id == transactionCurrentId
         tx == calls[p].body @@ [userId |-> calls[p].user]
     IN  IF backend = "mem"
           THEN LET out == MemCreateTransaction(accounts, transactions,
                                                categories, id, tx)
                IN  /\ accounts' = out.accounts
                    /\ transactions' = out.transactions
                    /\ transactionCurrentId' = id + 1
                    /\ createdAs' = createdAs @@ (id :> tx)
                    /\ calls' = [calls EXCEPT ![p].pc = "done", ![p].id = id,
                                              ![p].status = 201]
           ELSE IF ~ForeignKeysHold(accounts, categories, tx.accountId,
                                    tx.categoryId)
           THEN /\ Finish(p, 500)
                /\ UNCHANGED <<accounts, transactions, transactionCurrentId,
                               createdAs>>
           ELSE /\ transactions' = transactions @@ (id :> tx)
                /\ transactionCurrentId' = id + 1
                /\ createdAs' = createdAs @@ (id :> tx)
                /\ calls' = [calls EXCEPT ![p].pc = "getAccount", ![p].id = id]
                /\ UNCHANGED accounts
  /\ UNCHANGED seqVars

\* const account = await this.getAccount(transaction.accountId)
GetAccount(p) ==
  /\ calls[p].pc = "getAccount"
  /\ IF calls[p].body.accountId \in DOMAIN accounts
       THEN calls' = [calls EXCEPT
              ![p].balance = accounts[calls[p].body.accountId].currentBalance,
              ![p].pc = IF calls[p].body.categoryId # Null
                          THEN "getCategory" ELSE "updateAccount"]
       ELSE Finish(p, 201)
  /\ UNCHANGED <<accounts, transactions, transactionCurrentId, createdAs>>
  /\ UNCHANGED seqVars

\* const category = await this.getCategory(transaction.categoryId)
GetCategory(p) ==
  /\ calls[p].pc = "getCategory"
  /\ calls' = [calls EXCEPT
                 ![p].isIncome = IsIncome(categories, calls[p].body.categoryId),
                 ![p].pc = "updateAccount"]
  /\ UNCHANGED <<accounts, transactions, transactionCurrentId, createdAs>>
  /\ UNCHANGED seqVars

\* await this.updateAccount(account.id, { currentBalance: updatedBalance }),
\* the balance computed from the account as it was read.
UpdateAccount(p) ==
  /\ calls[p].pc = "updateAccount"
  /\ accounts' = updateAccount(accounts, calls[p].body.accountId,
                   BalanceAfterCreate(calls[p].balance, calls[p].isIncome,
                                      calls[p].body.amount))
  /\ Finish(p, 201)
  /\ UNCHANGED <<transactions, transactionCurrentId, createdAs>>
  /\ UNCHANGED seqVars

\* The same statement rejected by the database (connection lost, statement
\* timeout): updateAccount throws, the route's catch answers 500.
UpdateAccountFails(p) ==
  /\ calls[p].pc = "updateAccount"
  /\ Finish(p, 500)
  /\ UNCHANGED <<accounts, transactions, transactionCurrentId, createdAs>>
  /\ UNCHANGED seqVars

NextConc ==
  \/ \E u \in Users, b \in ConcOpenings : PostAccount(u, b)
  \/ \E p \in Procs, u \in Users, body \in ConcBodies :
       StartPostTransaction(p, u, body)
  \/ \E p \in Procs : RouteGetAccount(p)
  \/ \E p \in Procs : InsertTransaction(p)
  \/ \E p \in Procs : GetAccount(p)
  \/ \E p \in Procs : GetCategory(p)
  \/ \E p \in Procs : UpdateAccount(p)
  \/ \E p \in Procs : UpdateAccountFails(p)

SpecConc == Init /\ [][NextConc]_vars

\* ------------------------------------- update and delete requests in flight
\* PUT and DELETE /api/transactions/:id as the steps between their awaits,
\* next to the steps of POST /api/transactions.  The reads of the categories
\* table, which no request writes, are taken together with the step that
\* follows them.
StepOpenings == {100}
StepAmounts == {10}
StepBodies == TransactionBodies({1}, {Null, 2}, StepAmounts)
StepPatches == Patches({}, {2}, {20})

PutCall(pc, user, id, patch, cur, balance, status) ==
  [pc |-> pc, user |-> user, id |-> id, patch |-> patch, cur |-> cur,
   balance |-> balance, status |-> status]

DeleteCall(pc, user, id, cur, balance, status) ==
  [pc |-> pc, user |-> user, id |-> id, cur |-> cur, balance |-> balance,
   status |-> status]

tableVars == <<accounts, transactions, transactionCurrentId, createdAs>>
fixedVars == <<backend, otherTables, categories, accountCurrentId, response,
               openingBalance>>

\* The PUT request arrives.
StartPutTransaction(p, user, id, patch) ==
  /\ calls[p].pc = "idle"
  /\ updates < MaxUpdates
  /\ updates' = updates + 1
  /\ calls' = [calls EXCEPT
                 ![p] = PutCall("putRouteGet", user, id, updateData(patch),
                                EmptyRecord, 0, 0)]
  /\ UNCHANGED tableVars
  /\ UNCHANGED fixedVars

\* const transaction = await storage.getTransaction(transactionId), and the
\* 404 and 403 answers.
PutRouteGetTransaction(p) ==
  /\ calls[p].pc = "putRouteGet"
  /\ IF TransactionAccess(transactions, calls[p].id, calls[p].user) # 200
       THEN Finish(p, TransactionAccess(transactions, calls[p].id,
                                        calls[p].user))
       ELSE Goto(p, "putGet")
  /\ UNCHANGED <<tableVars, fixedVars, updates>>

\* storage.updateTransaction: const currentTransaction = await
\* this.getTransaction(id) in DatabaseStorage, the whole method in MemStorage.
PutGetTransaction(p) ==
  /\ calls[p].pc = "putGet"
  /\ IF backend = "mem"
       THEN LET out == MemUpdateTransaction(accounts, transactions, categories,
                                            calls[p].id, calls[p].patch)
            IN  /\ accounts' = out.accounts
                /\ transactions' = out.transactions
                /\ Finish(p, 200)
       ELSE /\ IF calls[p].id \notin DOMAIN transactions
                 THEN Finish(p, 200)
                 ELSE calls' = [calls EXCEPT
                        ![p].cur = transactions[calls[p].id],
                        ![p].pc = IF AmountOrCategoryChanged(
                                       transactions[calls[p].id], calls[p].patch)
                                    THEN "putGetAccount" ELSE "putSet"]
            /\ UNCHANGED <<accounts, transactions>>
  /\ UNCHANGED <<transactionCurrentId, createdAs, fixedVars, updates>>

\* const account = await this.getAccount(currentTransaction.accountId)
PutGetAccount(p) ==
  /\ calls[p].pc = "putGetAccount"
  /\ IF calls[p].cur.accountId \in DOMAIN accounts
       THEN calls' = [calls EXCEPT
              ![p].balance = accounts[calls[p].cur.accountId].currentBalance,
              ![p].pc = "putUpdateAccount"]
       ELSE Goto(p, "putSet")
  /\ UNCHANGED <<tableVars, fixedVars, updates>>

\* await this.updateAccount(account.id, { currentBalance: updatedBalance }),
\* the balance computed from the account and the transaction as they were
\* read.
PutUpdateAccount(p) ==
  /\ calls[p].pc = "putUpdateAccount"
  /\ accounts' = updateAccount(accounts, calls[p].cur.accountId,
       BalanceAfterUpdate(
         calls[p].balance,
         IsIncome(categories, calls[p].cur.categoryId), calls[p].cur.amount,
         IsIncome(categories, ApplyPatch(calls[p].cur, calls[p].patch).categoryId),
         ApplyPatch(calls[p].cur, calls[p].patch).amount))
  /\ Goto(p, "putSet")
  /\ UNCHANGED <<transactions, transactionCurrentId, createdAs, fixedVars,
                 updates>>

\* db.update(transactions).set(transactionUpdate).where(eq(transactions.id,
\* id)): the row as it is now takes the fields of the patch; no row, no write.
PutSetTransaction(p) ==
  /\ calls[p].pc = "putSet"
  /\ IF calls[p].id \notin DOMAIN transactions
       THEN /\ Finish(p, 200)
            /\ UNCHANGED transactions
       ELSE LET new == SetColumns(transactions[calls[p].id], calls[p].patch)
            IN  IF ForeignKeysHold(accounts, categories, new.accountId,
                                   new.categoryId)
                  THEN /\ transactions' =
                            [transactions EXCEPT ![calls[p].id] = new]
                       /\ Finish(p, 200)
                  ELSE /\ Finish(p, 500)
                       /\ UNCHANGED transactions
  /\ UNCHANGED <<accounts, transactionCurrentId, createdAs, fixedVars,
                 updates>>

\* The DELETE request arrives.
StartDeleteTransaction(p, user, id) ==
  /\ calls[p].pc = "idle"
  /\ calls' = [calls EXCEPT
                 ![p] = DeleteCall("delRouteGet", user, id, EmptyRecord, 0, 0)]
  /\ UNCHANGED <<tableVars, fixedVars, updates>>

\* const transaction = await storage.getTransaction(transactionId), and the
\* 404 and 403 answers.
DelRouteGetTransaction(p) ==
  /\ calls[p].pc = "delRouteGet"
  /\ IF TransactionAccess(transactions, calls[p].id, calls[p].user) # 200
       THEN Finish(p, TransactionAccess(transactions, calls[p].id,
                                        calls[p].user))
       ELSE Goto(p, "delGet")
  /\ UNCHANGED <<tableVars, fixedVars, updates>>

\* storage.deleteTransaction: const transaction = await
\* this.getTransaction(id) in DatabaseStorage, the whole method in MemStorage;
\* the route answers 500 when the method returns false.
DelGetTransaction(p) ==
  /\ calls[p].pc = "delGet"
  /\ IF calls[p].id \notin DOMAIN transactions
       THEN /\ Finish(p, 500)
            /\ UNCHANGED <<accounts, transactions, createdAs>>
       ELSE IF backend = "mem"
       THEN LET out == deleteTransaction(accounts, transactions, categories,
                                         calls[p].id)
            IN  /\ accounts' = out.accounts
                /\ transactions' = out.transactions
                /\ createdAs' = Without(createdAs, calls[p].id)
                /\ Finish(p, 204)
       ELSE /\ calls' = [calls EXCEPT ![p].cur = transactions[calls[p].id],
                                      ![p].pc = "delGetAccount"]
            /\ UNCHANGED <<accounts, transactions, createdAs>>
  /\ UNCHANGED <<transactionCurrentId, fixedVars, updates>>

\* const account = await this.getAccount(transaction.accountId)
DelGetAccount(p) ==
  /\ calls[p].pc = "delGetAccount"
  /\ IF calls[p].cur.accountId \in DOMAIN accounts
       THEN calls' = [calls EXCEPT
              ![p].balance = accounts[calls[p].cur.accountId].currentBalance,
              ![p].pc = "delUpdateAccount"]
       ELSE Goto(p, "delDelete")
  /\ UNCHANGED <<tableVars, fixedVars, updates>>

\* await this.updateAccount(account.id, { currentBalance: updatedBalance })
DelUpdateAccount(p) ==
  /\ calls[p].pc = "delUpdateAccount"
  /\ accounts' = updateAccount(accounts, calls[p].cur.accountId,
       BalanceAfterDelete(calls[p].balance,
                          IsIncome(categories, calls[p].cur.categoryId),
                          calls[p].cur.amount))
  /\ Goto(p, "delDelete")
  /\ UNCHANGED <<transactions, transactionCurrentId, createdAs, fixedVars,
                 updates>>

\* await db.delete(transactions).where(eq(transactions.id, id)); return true
DelDeleteTransaction(p) ==
  /\ calls[p].pc = "delDelete"
  /\ transactions' = Without(transactions, calls[p].id)
  /\ createdAs' = Without(createdAs, calls[p].id)
  /\ Finish(p, 204)
  /\ UNCHANGED <<accounts, transactionCurrentId, fixedVars, updates>>

\* A request that runs with no other request between its steps is
\* PostTransaction; the others advance step by step.
NextSteps ==
  \/ \E u \in Users, b \in StepOpenings : PostAccount(u, b)
  \/ \E u \in Users, body \in StepBodies : PostTransaction(u, body)
  \/ \E p \in Procs, u \in Users, body \in StepBodies :
       StartPostTransaction(p, u, body)
  \/ \E p \in Procs : RouteGetAccount(p)
  \/ \E p \in Procs : InsertTransaction(p)
  \/ \E p \in Procs : GetAccount(p)
  \/ \E p \in Procs : GetCategory(p)
  \/ \E p \in Procs : UpdateAccount(p)
  \/ \E p \in Procs, u \in Users, id \in TransactionIds,
        patch \in StepPatches : StartPutTransaction(p, u, id, patch)
  \/ \E p \in Procs : PutRouteGetTransaction(p)
  \/ \E p \in Procs : PutGetTransaction(p)
  \/ \E p \in Procs : PutGetAccount(p)
  \/ \E p \in Procs : PutUpdateAccount(p)
  \/ \E p \in Procs : PutSetTransaction(p)
  \/ \E p \in Procs, u \in Users, id \in TransactionIds :
       StartDeleteTransaction(p, u, id)
  \/ \E p \in Procs : DelRouteGetTransaction(p)
  \/ \E p \in Procs : DelGetTransaction(p)
  \/ \E p \in Procs : DelGetAccount(p)
  \/ \E p \in Procs : DelUpdateAccount(p)
  \/ \E p \in Procs : DelDeleteTransaction(p)

SpecSteps == Init /\ [][NextSteps]_vars

\* ------------------------------------------- delete-account requests in flight
\* DELETE /api/accounts/:id as the steps between its awaits: the two delete
\* statements of DatabaseStorage.deleteAccount are two steps.
AccountCall(pc, user, id, removed, status) ==
  [pc |-> pc, user |-> user, id |-> id, removed |-> removed,
   status |-> status]

\* The DELETE request arrives.
StartDeleteAccount(p, user, id) ==
  /\ calls[p].pc = "idle"
  /\ calls' = [calls EXCEPT
                 ![p] = AccountCall("acctRouteGet", user, id, {}, 0)]
  /\ UNCHANGED <<tableVars, fixedVars, updates>>

\* const account = await storage.getAccount(accountId), and the 404 and 403
\* answers.
AcctRouteGetAccount(p) ==
  /\ calls[p].pc = "acctRouteGet"
  /\ IF AccountAccess(accounts, calls[p].id, calls[p].user) # 200
       THEN Finish(p, AccountAccess(accounts, calls[p].id, calls[p].user))
       ELSE Goto(p, "acctDeleteTransactions")
  /\ UNCHANGED <<tableVars, fixedVars, updates>>

\* storage.deleteAccount: await db.delete(transactions).where(
\* eq(transactions.accountId, id)) in DatabaseStorage; in MemStorage the whole
\* method, `return this.accounts.delete(id)`, the route answering 500 when it
\* returns false.
AcctDeleteTransactions(p) ==
  /\ calls[p].pc = "acctDeleteTransactions"
  /\ IF backend = "mem"
       THEN /\ accounts' = MemDeleteAccount(accounts, transactions,
                                            calls[p].id).accounts
            /\ Finish(p, IF calls[p].id \in DOMAIN accounts THEN 204 ELSE 500)
            /\ UNCHANGED <<transactions, createdAs>>
       ELSE LET kept == DbDeleteAccount(accounts, transactions,
                                        calls[p].id).transactions
            IN  /\ transactions' = kept
                /\ createdAs' = [t \in DOMAIN kept |-> createdAs[t]]
                /\ calls' = [calls EXCEPT
                     ![p].removed = DOMAIN transactions \ DOMAIN kept,
                     ![p].pc = "acctDelete"]
                /\ UNCHANGED accounts
  /\ UNCHANGED <<transactionCurrentId, fixedVars, updates>>

\* await db.delete(accounts).where(eq(accounts.id, id)); return true.  The
\* statement is rejected while a transaction row references the account
\* (transactions.account_id references accounts.id); the route has no catch,
\* the request is then not answered 204 (recorded as 500).
AcctDeleteAccount(p) ==
  /\ calls[p].pc = "acctDelete"
  /\ IF \E t \in DOMAIN transactions : transactions[t].accountId = calls[p].id
       THEN /\ Finish(p, 500)
            /\ UNCHANGED accounts
       ELSE /\ accounts' = Without(accounts, calls[p].id)
            /\ Finish(p, 204)
  /\ UNCHANGED <<transactions, transactionCurrentId, createdAs, fixedVars,
                 updates>>

\* The same statement failing in the database (connection lost, statement
\* timeout).
AcctDeleteAccountFails(p) ==
  /\ calls[p].pc = "acctDelete"
  /\ Finish(p, 500)
  /\ UNCHANGED <<tableVars, fixedVars, updates>>

NextAccountSteps ==
  \/ \E u \in Users, b \in OpeningBalances : PostAccount(u, b)
  \/ \E u \in Users, body \in TransactionBodies(AccountIds, {Null, 2}, Amounts) :
       PostTransaction(u, body)
  \/ \E p \in Procs, u \in Users, id \in AccountIds :
       StartDeleteAccount(p, u, id)
  \/ \E p \in Procs : AcctRouteGetAccount(p)
  \/ \E p \in Procs : AcctDeleteTransactions(p)
  \/ \E p \in Procs : AcctDeleteAccount(p)
  \/ \E p \in Procs : AcctDeleteAccountFails(p)

SpecAccountSteps == Init /\ [][NextAccountSteps]_vars

\* ----------------------------------------------------- categories created
\* storage.createCategory next to the transaction requests: the categories
\* table grows, so that two categories of one type exist.
CategoryTypes == {"expense", "income"}

\* Mutant of createCategory: the new row takes the id of the last one.
createCategoryReusingId(cats, type) ==
  [cats EXCEPT ![Cardinality(DOMAIN cats)] = type]

\* createCategory: a new row under the next id of the serial column
\* (this.categoryCurrentId++); no method updates or deletes a row.
createCategory(cats, type) ==
  cats @@ (Cardinality(DOMAIN cats) + 1 :> type)

CreateCategory(type) ==
  /\ Cardinality(DOMAIN categories) < MaxCategories
  /\ categories' = createCategory(categories, type)
  /\ UNCHANGED <<backend, otherTables, accounts, transactions,
                 accountCurrentId, transactionCurrentId, response,
                 openingBalance, createdAs, updates, calls>>

CategoryBodies == TransactionBodies(AccountIds, 1 .. MaxCategories, {50})
CategoryPatches == Patches({}, 1 .. MaxCategories, {})

NextCategories ==
  \/ \E type \in CategoryTypes : CreateCategory(type)
  \/ \E u \in Users, b \in OpeningBalances : PostAccount(u, b)
  \/ \E u \in Users, body \in CategoryBodies : PostTransaction(u, body)
  \/ \E u \in Users, id \in TransactionIds, patch \in CategoryPatches :
       PutTransaction(u, id, patch)
  \/ \E u \in Users, id \in TransactionIds : DeleteTransaction(u, id)

SpecCategories == Init /\ [][NextCategories]_vars

\* ------------------------------ create requests next to account deletion
\* POST /api/transactions and DELETE /api/accounts/:id, both as the steps
\* between their awaits.
IntegrityBodies == TransactionBodies(AccountIds, {Null}, StepAmounts)

NextIntegrity ==
  \/ \E u \in Users, b \in StepOpenings : PostAccount(u, b)
  \/ \E p \in Procs, u \in Users, body \in IntegrityBodies :
       StartPostTransaction(p, u, body)
  \/ \E p \in Procs : RouteGetAccount(p)
  \/ \E p \in Procs : InsertTransaction(p)
  \/ \E p \in Procs : GetAccount(p)
  \/ \E p \in Procs : UpdateAccount(p)
  \/ \E p \in Procs, u \in Users, id \in AccountIds :
       StartDeleteAccount(p, u, id)
  \/ \E p \in Procs : AcctRouteGetAccount(p)
  \/ \E p \in Procs : AcctDeleteTransactions(p)
  \/ \E p \in Procs : AcctDeleteAccount(p)

SpecIntegrity == Init /\ [][NextIntegrity]_vars

\* ------------------------------------------------ owners in request bodies
\* updateAccount(id, accountUpdate): .set(accountUpdate) /
\* { ...account, ...accountUpdate }
updateAccountWith(accts, id, accountUpdate) ==
  IF id \in DOMAIN accts
    THEN [accts EXCEPT ![id] = ApplyPatch(accts[id], accountUpdate)]
    ELSE accts

\* PUT /api/accounts/:id: the request body goes to storage.updateAccount as
\* it is.
PutAccount(user, id, patch) ==
  /\ IF AccountAccess(accounts, id, user) # 200
       THEN /\ response' = Response("putAccount", id,
                                    AccountAccess(accounts, id, user))
            /\ UNCHANGED accounts
       ELSE /\ accounts' = updateAccountWith(accounts, id, patch)
            /\ response' = Response("putAccount", id, 200)
  /\ UNCHANGED <<backend, otherTables, transactions, categories,
                 accountCurrentId, transactionCurrentId, openingBalance,
                 createdAs, updates, calls>>

\* Request bodies of the two PUT routes that name a userId or an accountId.
OwnershipBodies == TransactionBodies(AccountIds, {Null}, {50})
OwnershipPatches ==
  {EmptyRecord} \cup {[userId |-> u] : u \in Owners}
                \cup {[accountId |-> a] : a \in AccountIds}
AccountPatches == {EmptyRecord} \cup {[userId |-> u] : u \in Owners}

NextOwnership ==
  \/ \E u \in Owners, b \in OwnerOpenings : PostAccount(u, b)
  \/ \E u \in Owners, body \in OwnershipBodies : PostTransaction(u, body)
  \/ \E u \in Owners, id \in TransactionIds, patch \in OwnershipPatches :
       PutTransaction(u, id, patch)
  \/ \E u \in Owners, id \in AccountIds, patch \in AccountPatches :
       PutAccount(u, id, patch)

SpecOwnership == Init /\ [][NextOwnership]_vars

\* ------------------------------------------- the other fields of an update
\* Transactions with their date and merchant, and updates that name any
\* subset of amount, date and merchant.
FieldBodies ==
  [accountId : AccountIds, categoryId : {Null}, amount : {50}, date : {1},
   merchant : {1}]
FieldPatches ==
  { a @@ d @@ m :
      a \in {EmptyRecord, [amount |-> 300]},
      d \in {EmptyRecord, [date |-> 2]},
      m \in {EmptyRecord, [merchant |-> 2]} }

NextFields ==
  \/ \E u \in Users, b \in OpeningBalances : PostAccount(u, b)
  \/ \E u \in Users, body \in FieldBodies : PostTransaction(u, body)
  \/ \E u \in Users, id \in TransactionIds, patch \in FieldPatches :
       PutTransaction(u, id, patch)
  \/ \E u \in Users, id \in TransactionIds : DeleteTransaction(u, id)

SpecFields == Init /\ [][NextFields]_vars

\* ------------------------------ the two IStorage implementations, paired
\* The storage calls themselves, one at a time, each given to a
\* DatabaseStorage (accounts, transactions) and to a MemStorage (mirror) that
\* start empty with the same categories.  The arguments are any values of
\* the parameter types: an accountId or categoryId may name no row.
PairOpenings == {1000}
PairAmounts == {50}
PairBodies ==
  [accountId : AccountIds, categoryId : CategoryInputs, amount : PairAmounts,
   userId : Users]
PairPatches == Patches({}, {Null, 2}, {300})

InitPair == Init /\ backend = "db"

pairVars == <<backend, userAchievements, categories, response,
              openingBalance, createdAs, calls>>

\* createAccount(account) on both stores; neither can fail, so the two id
\* counters stay equal.
BothCreateAccount(user, balance) ==
  /\ accountCurrentId <= MaxAccounts
  /\ LET id == accountCurrentId
         row == [userId |-> user, currentBalance |-> balance]
     IN  /\ accounts' = accounts @@ (id :> row)
         /\ mirror' = [mirror EXCEPT !.accounts = @ @@ (id :> row)]
         /\ accountCurrentId' = id + 1
  /\ UNCHANGED <<pairVars, transactions, transactionCurrentId, updates>>

\* createTransaction(transaction) on both stores.
BothCreateTransaction(tx) ==
  /\ transactionCurrentId <= MaxTransactions
  /\ mirror.transactionCurrentId <= MaxTransactions
  /\ LET db == DbCreateTransaction(accounts, transactions, categories,
                                   transactionCurrentId, tx)
         mem == MemCreateTransaction(mirror.accounts, mirror.transactions,
                                     categories, mirror.transactionCurrentId,
                                     tx)
     IN  /\ accounts' = db.accounts
         /\ transactions' = db.transactions
         /\ transactionCurrentId' =
              IF db.threw THEN transactionCurrentId
                          ELSE transactionCurrentId + 1
         /\ mirror' = [accounts |-> mem.accounts,
                       transactions |-> mem.transactions,
                       transactionCurrentId |->
                         mirror.transactionCurrentId + 1]
  /\ UNCHANGED <<pairVars, accountCurrentId, updates>>

\* updateTransaction(id, transactionUpdate) on both stores.
BothUpdateTransaction(id, patch) ==
  /\ updates < MaxUpdates
  /\ updates' = updates + 1
  /\ LET db == DbUpdateTransaction(accounts, transactions, categories, id,
                                   patch)
         mem == MemUpdateTransaction(mirror.accounts, mirror.transactions,
                                     categories, id, patch)
     IN  /\ accounts' = db.accounts
         /\ transactions' = db.transactions
         /\ mirror' = [mirror EXCEPT !.accounts = mem.accounts,
                                     !.transactions = mem.transactions]
  /\ UNCHANGED <<pairVars, accountCurrentId, transactionCurrentId>>

\* deleteTransaction(id) on both stores.
BothDeleteTransaction(id) ==
  /\ LET db == deleteTransaction(accounts, transactions, categories, id)
         mem == deleteTransaction(mirror.accounts, mirror.transactions,
                                  categories, id)
     IN  /\ accounts' = db.accounts
         /\ transactions' = db.transactions
         /\ mirror' = [mirror EXCEPT !.accounts = mem.accounts,
                                     !.transactions = mem.transactions]
  /\ UNCHANGED <<pairVars, accountCurrentId, transactionCurrentId, updates>>

\* deleteAccount(id) on both stores.
BothDeleteAccount(id) ==
  /\ LET db == DbDeleteAccount(accounts, transactions, id)
         mem == MemDeleteAccount(mirror.accounts, mirror.transactions, id)
     IN  /\ accounts' = db.accounts
         /\ transactions' = db.transactions
         /\ mirror' = [mirror EXCEPT !.accounts = mem.accounts,
                                     !.transactions = mem.transactions]
  /\ UNCHANGED <<pairVars, accountCurrentId, transactionCurrentId, updates>>

NextPair ==
  \/ \E u \in Users, b \in PairOpenings : BothCreateAccount(u, b)
  \/ \E tx \in PairBodies : BothCreateTransaction(tx)
  \/ \E id \in TransactionIds, patch \in PairPatches :
       BothUpdateTransaction(id, patch)
  \/ \E id \in TransactionIds : BothDeleteTransaction(id)
  \/ \E id \in AccountIds : BothDeleteAccount(id)

SpecPair == InitPair /\ [][NextPair]_vars

\* ------------------------------------------- awardAchievement, step by step
\* awardAchievement is a select followed by an insert, with an await between
\* them; user_achievements has no unique constraint on (user_id,
\* achievement_id).  Two calls are in flight at most.
AwardUsers == {1, 2}
AchievementIds == {1, 2}

awardVars == <<backend, mirror, accounts, transactions, categories,
               accountCurrentId, transactionCurrentId, response,
               openingBalance, createdAs, updates>>

\* The rows of user_achievements for a user and an achievement.
ExistingAwards(rows, userId, achievementId) ==
  {i \in DOMAIN rows : /\ rows[i].userId = userId
                       /\ rows[i].achievementId = achievementId}

\* awardAchievement(userAchievement) is called.
StartAward(p, userId, achievementId) ==
  /\ calls[p].pc = "idle"
  /\ calls' = [calls EXCEPT ![p] = [pc |-> "awardSelect", userId |-> userId,
                                    achievementId |-> achievementId]]
  /\ UNCHANGED <<awardVars, userAchievements>>

\* const existing = await db.select()...; if (existing.length > 0) return
AwardSelect(p) ==
  /\ calls[p].pc = "awardSelect"
  /\ calls' = [calls EXCEPT ![p] =
       IF ExistingAwards(userAchievements, calls[p].userId,
                         calls[p].achievementId) # {}
         THEN IdleCall
         ELSE [calls[p] EXCEPT !.pc = "awardInsert"]]
  /\ UNCHANGED <<awardVars, userAchievements>>

\* await db.insert(userAchievements).values(userAchievement).returning()
AwardInsert(p) ==
  /\ calls[p].pc = "awardInsert"
  /\ userAchievements' = userAchievements @@
       (Cardinality(DOMAIN userAchievements) + 1 :>
          [userId |-> calls[p].userId,
           achievementId |-> calls[p].achievementId])
  /\ calls' = [calls EXCEPT ![p] = IdleCall]
  /\ UNCHANGED awardVars

NextAwards ==
  \/ \E p \in Procs, u \in AwardUsers, a \in AchievementIds :
       StartAward(p, u, a)
  \/ \E p \in Procs : AwardSelect(p)
  \/ \E p \in Procs : AwardInsert(p)

\* awardAchievement is a method of DatabaseStorage.
InitAwards == Init /\ backend = "db"

SpecAwards == InitAwards /\ [][NextAwards]_vars

\* ================================================================= claims
\* The category directory of the specification: a transaction's category
\* type is income when its categoryId names an income category, and expense
\* in every other case (null, or naming no category).
ResolvesToIncome(categoryId) ==
  categoryId \in DOMAIN categories /\ categories[categoryId] = "income"

\* signedDelta(t): +amount for income, -amount otherwise, in exact arithmetic.
SignedDelta(tx) ==
  IF ResolvesToIncome(tx.categoryId) THEN tx.amount ELSE -tx.amount

RECURSIVE SumSignedDelta(_)
SumSignedDelta(ids) ==
  IF ids = {} THEN 0
  ELSE LET t == CHOOSE x \in ids : TRUE
       IN  SignedDelta(transactions[t]) + SumSignedDelta(ids \ {t})

PostedTo(a) == {t \in DOMAIN transactions : transactions[t].accountId = a}

\* C1: fold invariant.  Between requests, every account's currentBalance
\* equals its opening balance plus the sum of signedDelta over the stored
\* transactions whose accountId is that account.  Stated for the accounts
\* opened with a balance small enough that the sums of this model's amounts
\* are not rounded, so that a violation is one of exact arithmetic.
C1_FoldInvariant ==
  \A a \in DOMAIN accounts :
    openingBalance[a] <= MantissaLimit \div 2 =>
      accounts[a].currentBalance =
        openingBalance[a] + SumSignedDelta(PostedTo(a))

\* C4: a successful createTransaction stores exactly one new record and
\* moves the owning account's balance once: up by the amount when the
\* category resolves to income, down by it in every other case (null
\* categoryId and unresolvable categoryId included); nothing else changes.
C4_CreateAppliesDeltaOnce ==
  [][ (response'.op = "postTransaction" /\ response'.status = 201) =>
        LET id == response'.id
            tx == transactions'[id]
            a == tx.accountId
        IN  /\ id \notin DOMAIN transactions
            /\ DOMAIN transactions' = DOMAIN transactions \cup {id}
            /\ \A t \in DOMAIN transactions : transactions'[t] = transactions[t]
            /\ DOMAIN accounts' = DOMAIN accounts
            /\ accounts'[a].currentBalance =
                 IF ResolvesToIncome(tx.categoryId)
                   THEN FAdd(accounts[a].currentBalance, tx.amount)
                   ELSE FSub(accounts[a].currentBalance, tx.amount)
            /\ \A b \in DOMAIN accounts \ {a} : accounts'[b] = accounts[b]
    ]_vars

\* C4 witness: a create with a categoryId that names no category succeeded
\* (and so was counted as an expense).
C4_Witness ==
  /\ response.op = "postTransaction"
  /\ response.status = 201
  /\ response.id \in DOMAIN transactions
  /\ transactions[response.id].categoryId = UnknownCategory

\* C5: an update that changes amount and/or categoryId changes the owning
\* account's balance by exactly newSignedDelta - oldSignedDelta.
C5_UpdateAppliesDifference ==
  [][ (response'.op = "putTransaction" /\ response'.status = 200) =>
        LET id == response'.id
            old == transactions[id]
            new == transactions'[id]
            a == old.accountId
        IN  ( /\ old.amount # new.amount \/ old.categoryId # new.categoryId
              /\ a \in DOMAIN accounts )
            => accounts'[a].currentBalance =
                 FAdd(accounts[a].currentBalance,
                      SignedDelta(new) - SignedDelta(old))
    ]_vars

\* C6: deleteTransaction removes the record and changes the balance of the
\* account that received the transaction's contribution by -signedDelta(t).
C6_DeleteReversesContribution ==
  [][ (response'.op = "deleteTransaction" /\ response'.status = 204) =>
        LET id == response'.id
            a == createdAs[id].accountId
        IN  /\ id \notin DOMAIN transactions'
            /\ a \in DOMAIN accounts =>
                 accounts'[a].currentBalance =
                   FSub(accounts[a].currentBalance,
                        SignedDelta(transactions[id]))
    ]_vars

\* C7: create/delete inverse.  Deleting a transaction in the request that
\* follows its creation restores the account's balance to its value before
\* the create and the stored transactions to what they were.  Stated for the
\* first transaction ever created, before which the account's balance is its
\* opening balance and no transaction is stored.
C7_CreateThenDeleteRestores ==
  [][ ( /\ response.op = "postTransaction"
        /\ response.status = 201
        /\ response.id = 1
        /\ response'.op = "deleteTransaction"
        /\ response'.status = 204
        /\ response'.id = response.id )
      => LET a == transactions[response.id].accountId
         IN  /\ accounts'[a].currentBalance = openingBalance[a]
             /\ transactions' = EmptyRecord
    ]_vars

\* C8: category flip.  An update that changes a transaction's category from
\* an expense category to an income category, amount unchanged, raises the
\* account balance by exactly 2 x amount; the reverse flip lowers it by
\* exactly 2 x amount.
C8_CategoryFlipDoublesAmount ==
  [][ (response'.op = "putTransaction" /\ response'.status = 200) =>
        LET id == response'.id
            old == transactions[id]
            new == transactions'[id]
            a == old.accountId
            IsExpenseCategory(c) ==
              c \in DOMAIN categories /\ categories[c] = "expense"
        IN  (old.amount = new.amount /\ a \in DOMAIN accounts) =>
              /\ (IsExpenseCategory(old.categoryId)
                    /\ ResolvesToIncome(new.categoryId))
                 => accounts'[a].currentBalance =
                      FAdd(accounts[a].currentBalance, 2 * old.amount)
              /\ (ResolvesToIncome(old.categoryId)
                    /\ IsExpenseCategory(new.categoryId))
                 => accounts'[a].currentBalance =
                      FSub(accounts[a].currentBalance, 2 * old.amount)
    ]_vars

\* C9: no-op update.  A successful update whose patch names only values the
\* transaction already has (so that the stored transaction is as before)
\* leaves every account as it was; the tables after it are the tables before
\* it, however often it is repeated.
C9_NoOpUpdateChangesNothing ==
  [][ ( /\ response'.op = "putTransaction"
        /\ response'.status = 200
        /\ transactions' = transactions )
      => accounts' = accounts
    ]_vars

\* C9 witness: the only update handled so far succeeded on a transaction
\* that is still as it was inserted, in an account that holds two
\* transactions.
C9_Witness ==
  /\ response.op = "putTransaction"
  /\ response.status = 200
  /\ updates = 1
  /\ response.id \in DOMAIN transactions
  /\ transactions[response.id] = createdAs[response.id]
  /\ Cardinality(PostedTo(transactions[response.id].accountId)) = 2

\* C10: the example run of the specification.  From an opening balance of
\* 1000: T1 (200, expense) stored gives 800; T2 (500, income) stored as well
\* gives 1300; T1's amount then updated to 300 gives 1200; T2 then deleted
\* gives 700.
ExampleT1(amount) ==
  [accountId |-> 1, categoryId |-> 1, amount |-> amount, userId |-> 1]
ExampleT2 == [accountId |-> 1, categoryId |-> 2, amount |-> 500, userId |-> 1]

ExampleAt(balance, txs) ==
  /\ 1 \in DOMAIN accounts
  /\ openingBalance[1] = 1000
  /\ accounts[1].currentBalance = balance
  /\ transactions = txs

C10_ExampleTrace ==
  [][ /\ (ExampleAt(1000, EmptyRecord) /\ transactionCurrentId = 1
            /\ transactions' = (1 :> ExampleT1(200)))
         => accounts'[1].currentBalance = 800
      /\ (ExampleAt(800, (1 :> ExampleT1(200)))
            /\ transactions' = (1 :> ExampleT1(200)) @@ (2 :> ExampleT2))
         => accounts'[1].currentBalance = 1300
      /\ (ExampleAt(1300, (1 :> ExampleT1(200)) @@ (2 :> ExampleT2))
            /\ transactions' = (1 :> ExampleT1(300)) @@ (2 :> ExampleT2))
         => accounts'[1].currentBalance = 1200
      /\ (ExampleAt(1200, (1 :> ExampleT1(300)) @@ (2 :> ExampleT2))
            /\ transactions' = (1 :> ExampleT1(300)))
         => accounts'[1].currentBalance = 700
    ]_vars

\* C10 witness: the last state of the example run, T1 created with 200 and
\* now 300, T2 deleted by the last request.
C10_Witness ==
  /\ ExampleAt(700, (1 :> ExampleT1(300)))
  /\ createdAs = (1 :> ExampleT1(200))
  /\ response = Response("deleteTransaction", 2, 204)
  /\ updates = 1

\* C2: two concurrent creates, each an expense of 10 on an account opened at
\* 100, leave the balance at 80 once both have answered 201.
C2_ConcurrentCreatesBothCounted ==
  \A a \in DOMAIN accounts :
    LET creates == {p \in Procs :
                      /\ calls[p].pc = "done"
                      /\ calls[p].status = 201
                      /\ calls[p].body.accountId = a
                      /\ calls[p].body.amount = 10
                      /\ ~ResolvesToIncome(calls[p].body.categoryId)}
    IN  ( /\ openingBalance[a] = 100
          /\ Cardinality(creates) = 2
          /\ \A p \in Procs \ creates : calls[p].pc = "idle" )
        => accounts[a].currentBalance = 80

\* C3: createTransaction is atomic over its two writes.  Once the only
\* create request made so far has been answered, its transaction is stored
\* and counted in the balance, or it is not stored and not counted.
C3_CreateIsAtomic ==
  \A p \in Procs :
    ( /\ calls[p].pc = "done"
      /\ \A q \in Procs \ {p} : calls[q].pc = "idle" )
    => \A a \in DOMAIN accounts :
         accounts[a].currentBalance =
           openingBalance[a] + SumSignedDelta(PostedTo(a))

\* C11: cascade delete.  After a delete-account request has been answered
\* 204, the account is gone and no stored transaction has its id as
\* accountId, however many transactions the account had.
C11_CascadeDelete ==
  [][ (response'.op = "deleteAccount" /\ response'.status = 204) =>
        /\ response'.id \notin DOMAIN accounts'
        /\ \A t \in DOMAIN transactions' :
             transactions'[t].accountId # response'.id
    ]_vars

\* C12: cross-user rejection.  A create-transaction request with a valid
\* body that names an account of another user is answered 403, stores no
\* transaction and leaves every account as it was.
C12_CrossUserCreateRejected ==
  [][ \A u \in Owners, body \in OwnerBodies :
        ( /\ insertTransactionSchema(body)
          /\ body.accountId \in DOMAIN accounts
          /\ accounts[body.accountId].userId # u
          /\ PostTransaction(u, body) )
        => /\ response'.status = 403
           /\ transactions' = transactions
           /\ accounts' = accounts
    ]_vars

\* C12 witness: a create request was answered 403 while every account a
\* body can name is stored, one of them with a transaction: the request
\* named an account of another user.
C12_Witness ==
  /\ response.op = "postTransaction"
  /\ response.status = 403
  /\ DOMAIN accounts = AccountIds
  /\ \E a \in AccountIds : accounts[a].userId = 1 /\ PostedTo(a) # {}
  /\ \E a \in AccountIds : accounts[a].userId = 2

\* C16: authorization before any write.  An update or delete request for a
\* stored transaction of another user, and a delete request for a stored
\* account of another user, is answered 403 and leaves every account and
\* every transaction as it was.
C16_ForeignRequestsRejected ==
  [][ \A u \in Owners :
        /\ \A id \in TransactionIds :
             ( /\ id \in DOMAIN transactions
               /\ transactions[id].userId # u
               /\ \/ \E patch \in OwnerPatches : PutTransaction(u, id, patch)
                  \/ DeleteTransaction(u, id) )
             => /\ response'.status = 403
                /\ accounts' = accounts
                /\ transactions' = transactions
        /\ \A a \in AccountIds :
             ( /\ a \in DOMAIN accounts
               /\ accounts[a].userId # u
               /\ DeleteAccount(u, a) )
             => /\ response'.status = 403
                /\ accounts' = accounts
                /\ transactions' = transactions
    ]_vars

\* C16 witness: a delete request for an account that holds a transaction was
\* answered 403.
C16_Witness ==
  /\ response.op = "deleteAccount"
  /\ response.status = 403
  /\ PostedTo(response.id) # {}

\* C17: validation before any write.  A create-transaction request whose
\* amount is zero or negative is answered 400, stores no transaction and
\* leaves every account as it was.  Stated for the requests that name a
\* stored account of the requester, which have nothing else to be rejected
\* for.
C17_NonPositiveAmountRejected ==
  [][ \A u \in Owners, body \in OwnerBodies :
        ( /\ "amount" \in DOMAIN body
          /\ body.amount <= 0
          /\ ~CannotPostTo(accounts, body.accountId, u)
          /\ body.categoryId = Null
          /\ PostTransaction(u, body) )
        => /\ response'.status = 400
           /\ transactions' = transactions
           /\ accounts' = accounts
    ]_vars

\* C18: not-found for transactions.  An update or delete request for a
\* transaction id that is not stored is answered 404 and leaves every account
\* and every stored transaction as it was.
C18_MissingTransactionNotFound ==
  [][ \A u \in Owners, id \in TransactionIds :
        ( /\ id \notin DOMAIN transactions
          /\ \/ \E patch \in OwnerPatches : PutTransaction(u, id, patch)
             \/ DeleteTransaction(u, id) )
        => /\ response'.status = 404
           /\ accounts' = accounts
           /\ transactions' = transactions
    ]_vars

\* C18 witness: an update request was answered 404 while another transaction
\* is stored.
C18_Witness ==
  /\ response.op = "putTransaction"
  /\ response.status = 404
  /\ response.id \notin DOMAIN transactions
  /\ transactions # EmptyRecord

\* C19: not-found for categories.  A create-transaction request whose
\* categoryId names no stored category is rejected: it is not answered 201,
\* no transaction is stored and no account changes.
C19_UnknownCategoryRejected ==
  [][ \A u \in Owners, body \in OwnerBodies :
        ( /\ insertTransactionSchema(body)
          /\ body.categoryId # Null
          /\ body.categoryId \notin DOMAIN categories
          /\ PostTransaction(u, body) )
        => /\ response'.status # 201
           /\ transactions' = transactions
           /\ accounts' = accounts
    ]_vars

\* C20: a transaction belongs to one account for its whole lifetime.  Every
\* stored transaction has the accountId it was created with.
C20_AccountIdNeverChanges ==
  \A t \in DOMAIN transactions :
    transactions[t].accountId = createdAs[t].accountId

\* C14: no partial success for update and delete.  When an update or delete
\* request fails (500), neither of its two writes persists: the accounts and
\* the transactions are as before the request.
C14_FailedRequestWritesNothing ==
  [][ ( /\ response'.op \in {"putTransaction", "deleteTransaction"}
        /\ response'.status = 500 )
      => /\ accounts' = accounts
         /\ transactions' = transactions
    ]_vars

\* C13: operations on one account are linearized.  Once every create, update
\* and delete request in flight has been answered, all of them with success,
\* each account's balance is its opening balance plus the signed sum of the
\* transactions that remain stored, whatever the interleaving of their steps.
C13_CallsLinearized ==
  ( \A p \in Procs :
      \/ calls[p].pc = "idle"
      \/ calls[p].pc = "done" /\ calls[p].status \in {200, 201, 204} )
  => \A a \in DOMAIN accounts :
       accounts[a].currentBalance =
         openingBalance[a] + SumSignedDelta(PostedTo(a))

\* C15: deleteAccount is atomic.  Between requests, an account that a
\* delete-account request was made for is stored with every transaction it
\* had, or is gone with all of them; a failure between the two delete
\* statements included.  Stated for DatabaseStorage, whose deleteAccount is
\* the two statements.
C15_DeleteAccountAllOrNothing ==
  ( /\ backend = "db"
    /\ \A p \in Procs : calls[p].pc \in {"idle", "done"} )
  => \A p \in Procs :
       calls[p].pc = "done" =>
         \/ /\ calls[p].id \notin DOMAIN accounts
            /\ PostedTo(calls[p].id) = {}
         \/ /\ calls[p].id \in DOMAIN accounts
            /\ calls[p].removed = {}

\* C21: every stored transaction has amount > 0, in every reachable state.
C21_StoredAmountsPositive ==
  \A t \in DOMAIN transactions : transactions[t].amount > 0

\* C22: operations on different accounts are independent.  A create, update
\* or delete request acting on a transaction posted to account A leaves every
\* other account, and the set of transactions posted to every other account,
\* as they were.
C22_OtherAccountsUntouched ==
  [][ ( /\ response'.op \in {"postTransaction", "putTransaction",
                            "deleteTransaction"}
        /\ response'.status \in {200, 201, 204} )
      => LET id == response'.id
             A == IF response'.op = "postTransaction"
                    THEN transactions'[id].accountId
                    ELSE transactions[id].accountId
         IN  /\ \A b \in DOMAIN accounts \ {A} :
                  b \in DOMAIN accounts' /\ accounts'[b] = accounts[b]
             /\ \A b \in DOMAIN accounts \ {A} :
                  {t \in DOMAIN transactions' : transactions'[t].accountId = b}
                    = PostedTo(b)
    ]_vars

\* C23: a category's type is immutable.  Every step leaves each stored
\* category stored and with the type it had, so that in every reachable state
\* each category has the type it was created with.
C23_CategoryTypeImmutable ==
  [][ \A c \in DOMAIN categories :
        c \in DOMAIN categories' /\ categories'[c] = categories[c]
    ]_vars

\* C23 witness: a category was created after the default ones, and since
\* then a transaction that names it was stored and one was updated.
C23_Witness ==
  /\ Cardinality(DOMAIN categories) > Cardinality(DOMAIN defaultCategories)
  /\ \E t \in DOMAIN transactions :
       transactions[t].categoryId \notin DOMAIN defaultCategories
  /\ response.op = "putTransaction"
  /\ response.status = 200

\* C28: an update that changes only categoryId, between two stored
\* categories of the same type, leaves the account's balance unchanged.
C28_SameTypeCategoryChange ==
  [][ (response'.op = "putTransaction" /\ response'.status = 200) =>
        LET id == response'.id
            old == transactions[id]
            new == transactions'[id]
            a == old.accountId
        IN  ( /\ a \in DOMAIN accounts
              /\ new.amount = old.amount
              /\ new.categoryId # old.categoryId
              /\ old.categoryId \in DOMAIN categories
              /\ new.categoryId \in DOMAIN categories
              /\ categories[new.categoryId] = categories[old.categoryId] )
            => accounts'[a].currentBalance = accounts[a].currentBalance
    ]_vars

\* C24: two concurrent deletes of one transaction remove its contribution
\* once.  When the only transaction ever created has been deleted by two
\* delete requests in flight together, both answered 204, its account is back
\* at its opening balance.
C24_ConcurrentDeletesDebitOnce ==
  ( /\ transactionCurrentId = 2
    /\ \A p \in Procs :
         /\ calls[p].pc = "done"
         /\ DOMAIN calls[p] = DOMAIN DeleteCall("done", 0, 0, EmptyRecord, 0, 0)
         /\ calls[p].id = 1
         /\ calls[p].status = 204 )
  => \A a \in DOMAIN accounts :
       accounts[a].currentBalance = openingBalance[a]

\* C25: referential integrity.  In every reachable state, the states between
\* the steps of a create-transaction request and a delete-account request in
\* flight together included, every stored transaction's accountId is the id
\* of a stored account.
C25_TransactionsReferenceAccounts ==
  \A t \in DOMAIN transactions : transactions[t].accountId \in DOMAIN accounts

\* C26: ownership consistency.  After every step each stored transaction has
\* the userId of the account its accountId references, and no step changes
\* the userId of a stored account or of a stored transaction.
C26_OwnershipConsistent ==
  [][ /\ \A t \in DOMAIN transactions' :
           transactions'[t].accountId \in DOMAIN accounts' =>
             transactions'[t].userId =
               accounts'[transactions'[t].accountId].userId
      /\ \A a \in DOMAIN accounts \cap DOMAIN accounts' :
           accounts'[a].userId = accounts[a].userId
      /\ \A t \in DOMAIN transactions \cap DOMAIN transactions' :
           transactions'[t].userId = transactions[t].userId
    ]_vars

\* C27: an update leaves alone what the request does not name.  A successful
\* update leaves every field of the transaction that the request body does
\* not name as it was (the date, when the body has no date), and a body that
\* names only date and merchant leaves every account as it was.
C27_UnnamedFieldsUnchanged ==
  [][ \A u \in Users, id \in TransactionIds, patch \in FieldPatches :
        ( /\ id \in DOMAIN transactions
          /\ PutTransaction(u, id, patch)
          /\ response'.status = 200 )
        => /\ \A k \in DOMAIN transactions[id] \ DOMAIN patch :
                transactions'[id][k] = transactions[id][k]
           /\ DOMAIN patch \subseteq {"date", "merchant"} =>
                accounts' = accounts
    ]_vars

\* C29: MemStorage and DatabaseStorage are equivalent on the engine
\* operations: after any sequence of createAccount, createTransaction,
\* updateTransaction, deleteTransaction and deleteAccount calls run one at a
\* time from the same initial state, both hold the same accounts with the
\* same currentBalance and the same transactions.
C29_StoresEquivalent ==
  /\ mirror.accounts = accounts
  /\ mirror.transactions = transactions

\* C30: awardAchievement never creates a duplicate: under any sequence or
\* interleaving of awardAchievement calls, user_achievements holds at most
\* one row for each pair of a user and an achievement.
C30_NoDuplicateAwards ==
  \A i, j \in DOMAIN userAchievements :
    ( /\ userAchievements[i].userId = userAchievements[j].userId
      /\ userAchievements[i].achievementId = userAchievements[j].achievementId )
    => i = j

====
